---- MODULE Spec2Model ----
(***************************************************************************)
(* Verification engine of the event-management backend                     *)
(* (internal/models/model.go: package services, verificationService) over  *)
(* the gorm repositories (participantRepo, eventRepo, actionRepo,          *)
(* userRepo).  Every repository call is one atomic step on the store; a    *)
(* request handler is the sequence of its repository calls, so concurrent  *)
(* requests interleave between calls exactly as goroutines of the server   *)
(* interleave between SQL statements.                                      *)
(***************************************************************************)
EXTENDS Integers, Sequences, FiniteSets, TLC

VARIABLES
    events,        \* events table:        id -> [ticketPrice, hasQuota, ticketQuota]
    days,          \* event_days table:    id -> [eventId, dayNumber, date]
    actions,       \* event_actions table: id -> [eventId, dayId, code, isActive]
    participants,  \* participants table:  id -> [eventId, paymentStatus, email]
    users,         \* users table:         id -> [role]
    logs,          \* action_logs table:   set of ActionLog rows
    now,           \* wall clock (time.Now()), in clock units
    pc,            \* per verify request: position in VerifyParticipantAction
    req,           \* per verify request: the VerifyRequest
    participant,   \* per verify request: *models.Participant loaded in step 2
    action,        \* per verify request: *models.EventAction loaded in step 3
    verifier,      \* per verify request: *models.User loaded in step 4
    result,        \* per verify request: (*VerificationResult, error) returned
    succeeded,     \* history: (participant, action) pairs a verify returned success for
    prior,         \* history: value of succeeded when the sequential request started
    resp,          \* last answer of a query / revert operation
    down,          \* the tables whose statements currently return an error
    pending        \* per worker: the EventService call it is serving

vars == <<events, days, actions, participants, users, logs, now,
          pc, req, participant, action, verifier, result, succeeded, prior, resp,
          down, pending>>

store == <<events, days, actions, participants, users, logs>>

----------------------------------------------------------------------------
(* Bounds of the model *)

\* number of verify requests that may be in flight at the same time
NumCalls == 2
\* the clock runs from 1 to MaxTime
MaxTime == 3
\* number of EventDays, and of EventActions, that may be added to the seeded ones
MaxNewRows == 2
\* the counts of a paginated listing run from 0 to MaxTotal
MaxTotal == 45
\* number of tables whose statements may fail at the same time
MaxDown == 1
\* a credential payload has at most MaxQRLen symbols
MaxQRLen == 3

Calls == 1..NumCalls

----------------------------------------------------------------------------
(* Program constants *)

\* eventDate.Truncate(24 * time.Hour): one day, in clock units
DayLen == 2
\* date of the seeded day d1: the middle of the day that begins at DayLen
Day1Date == DayLen + 1
\* TicketQuota of the seeded paid event
SeedQuota == 2

PaymentStatuses == {"unpaid", "pending", "paid"}

\* VerificationErrorType
ErrInvalidInput        == "INVALID_INPUT"
ErrInvalidQRCode       == "INVALID_QR_CODE"
ErrParticipantNotFound == "PARTICIPANT_NOT_FOUND"
ErrActionNotFound      == "ACTION_NOT_FOUND"
ErrActionInactive      == "ACTION_INACTIVE"
ErrVerifierNotFound    == "VERIFIER_NOT_FOUND"
ErrPaymentRequired     == "PAYMENT_REQUIRED"
ErrAlreadyVerified     == "ALREADY_VERIFIED"
ErrEventNotFound       == "EVENT_NOT_FOUND"
ErrEventMismatch       == "EVENT_MISMATCH"
ErrEventNotStarted     == "EVENT_NOT_STARTED"
ErrDatabaseError       == "DATABASE_ERROR"
ErrPermissionDenied    == "PERMISSION_DENIED"
ErrNotImplemented      == "NOT_IMPLEMENTED"

VerificationErrorType ==
    { ErrInvalidInput, ErrInvalidQRCode, ErrParticipantNotFound, ErrActionNotFound,
      ErrActionInactive, ErrVerifierNotFound, ErrPaymentRequired, ErrAlreadyVerified,
      ErrEventNotFound, ErrEventMismatch, ErrEventNotStarted, ErrDatabaseError,
      ErrPermissionDenied, ErrNotImplemented }

Success == "SUCCESS"

----------------------------------------------------------------------------
(* Records *)

NoParticipant == [id |-> "none", eventId |-> "none", paymentStatus |-> "none"]
NoAction      == [id |-> "none", eventId |-> "none", dayId |-> "none",
                  code |-> "none", isActive |-> FALSE]
NoUser        == [id |-> "none", role |-> "none"]
NoLog         == [id |-> 0, participantId |-> "none", actionId |-> "none",
                  verifiedBy |-> "none", verifiedAt |-> 0]
NoPending     == [op |-> "none"]
NoRequest     == [qr |-> <<>>, code |-> "", verifierId |-> ""]
NoResult      == [kind |-> "none", log |-> NoLog]

\* NewVerificationError(message, code, details): only the code is observable here
NewVerificationError(code) == [kind |-> code, log |-> NoLog]

----------------------------------------------------------------------------
(* Credential payloads.  A payload is a sequence of symbols: "/" is the    *)
(* path separator, "." the extension dot, every other symbol stands for a  *)
(* run of ordinary characters.  The symbols in UUIDText are runs that      *)
(* uuid.Parse accepts; any other run is rejected.                          *)

UUIDText == {"p1", "p2", "p3", "p4", "p5", "p6", "px"}

\* uuid.Parse(s): err == nil
uuidParseOk(s) == Len(s) = 1 /\ s[1] \in UUIDText

RECURSIVE stripTrailingSlashes(_)
stripTrailingSlashes(s) ==
    IF s # <<>> /\ s[Len(s)] = "/" THEN stripTrailingSlashes(SubSeq(s, 1, Len(s) - 1))
    ELSE s

\* index of the last "/" of s, 0 when there is none
RECURSIVE lastSlash(_, _)
lastSlash(s, i) ==
    IF i = 0 THEN 0 ELSE IF s[i] = "/" THEN i ELSE lastSlash(s, i - 1)

\* filepath.Base
filepathBase(path) ==
    IF path = <<>> THEN <<".">>
    ELSE LET t == stripTrailingSlashes(path) IN
         IF t = <<>> THEN <<"/">>
         ELSE SubSeq(t, lastSlash(t, Len(t)) + 1, Len(t))

\* filepath.Ext: the suffix beginning at the final dot of the final element
RECURSIVE extFrom(_, _)
extFrom(s, i) ==
    IF i = 0 \/ s[i] = "/" THEN <<>>
    ELSE IF s[i] = "." THEN SubSeq(s, i, Len(s))
    ELSE extFrom(s, i - 1)

filepathExt(path) == extFrom(path, Len(path))

\* utils.ExtractUUIDFromQRPath: [ok, id]
ExtractUUIDFromQRPath(qrPath) ==
    LET filename == filepathBase(qrPath)
        ext      == filepathExt(filename)
        uuidStr  == SubSeq(filename, 1, Len(filename) - Len(ext))
    IN  IF ext = <<>> THEN [ok |-> FALSE, id |-> "none"]
        ELSE IF ~uuidParseOk(uuidStr) THEN [ok |-> FALSE, id |-> "none"]
        ELSE [ok |-> TRUE, id |-> uuidStr[1]]

----------------------------------------------------------------------------
(* Repositories: each operator is one query on the current store.          *)
(* A lookup answers [found, err, row]; err is "none", GormNotFound (the    *)
(* error value gorm.ErrRecordNotFound itself) or Opaque (an error that     *)
(* errors.Is does not relate to gorm.ErrRecordNotFound).                   *)

GormNotFound == "gorm.ErrRecordNotFound"
Opaque       == "opaque"

\* the tables of the database
Tables == {"events", "event_days", "event_actions", "participants", "users", "action_logs"}

\* a statement on table t returns an error other than gorm.ErrRecordNotFound
Fails(t) == t \in down

\* participantRepo.GetParticipantByID
GetParticipantByID(id) ==
    IF Fails("participants") THEN [found |-> FALSE, err |-> Opaque, row |-> NoParticipant]
    ELSE IF id \in DOMAIN participants
    THEN [found |-> TRUE, err |-> "none",
          row |-> [id |-> id, eventId |-> participants[id].eventId,
                   paymentStatus |-> participants[id].paymentStatus]]
    ELSE [found |-> FALSE, err |-> GormNotFound, row |-> NoParticipant]

\* eventRepo.GetEventActionByCode: WHERE code = ? AND is_active = true;
\* a missing row is reported with fmt.Errorf("event action not found ..."),
\* which does not wrap gorm.ErrRecordNotFound
GetEventActionByCode(code) ==
    LET hit == { a \in DOMAIN actions : actions[a].code = code /\ actions[a].isActive } IN
    IF code = "" THEN [found |-> FALSE, err |-> Opaque, row |-> NoAction]
    ELSE IF Fails("event_actions") THEN [found |-> FALSE, err |-> Opaque, row |-> NoAction]
    ELSE IF hit = {} THEN [found |-> FALSE, err |-> Opaque, row |-> NoAction]
    ELSE LET a == CHOOSE x \in hit : TRUE IN
         [found |-> TRUE, err |-> "none",
          row |-> [id |-> a, eventId |-> actions[a].eventId, dayId |-> actions[a].dayId,
                   code |-> actions[a].code, isActive |-> actions[a].isActive]]

\* eventRepo.GetEventActionByID
GetEventActionByID(id) ==
    IF id # "" /\ id \in DOMAIN actions /\ ~Fails("event_actions")
    THEN [found |-> TRUE, err |-> "none",
          row |-> [id |-> id, eventId |-> actions[id].eventId, dayId |-> actions[id].dayId,
                   code |-> actions[id].code, isActive |-> actions[id].isActive]]
    ELSE [found |-> FALSE, err |-> Opaque, row |-> NoAction]

GetUserByIDAny(id) ==
    [found |-> TRUE, err |-> "none", row |-> [id |-> id, role |-> "staff"]]

\* userRepo.GetUserByID
GetUserByID(id) ==
    IF Fails("users") THEN [found |-> FALSE, err |-> Opaque, row |-> NoUser]
    ELSE IF id \in DOMAIN users
    THEN [found |-> TRUE, err |-> "none", row |-> [id |-> id, role |-> users[id].role]]
    ELSE [found |-> FALSE, err |-> GormNotFound, row |-> NoUser]

\* eventRepo.GetEventByID: err == nil
GetEventByID(id) == id # "" /\ id \in DOMAIN events /\ ~Fails("events")

\* eventRepo.GetEventDayByID: err == nil
GetEventDayByID(id) == id # "" /\ id \in DOMAIN days /\ ~Fails("event_days")

HasActionLogOffByOne(participantID, actionID) ==
    Cardinality({ l \in logs : l.participantId = participantID /\ l.actionId = actionID }) > 1

HasActionLogOfParticipant(participantID, actionID) ==
    Cardinality({ l \in logs : l.participantId = participantID }) > 0

\* actionRepo.HasActionLog: SELECT count(*) ... WHERE participant_id = ? AND action_id = ?
HasActionLog(participantID, actionID) ==
    Cardinality({ l \in logs : l.participantId = participantID /\ l.actionId = actionID }) > 0

\* actionRepo.CreateActionLog: INSERT; action_logs has a primary key on id and
\* no unique index over (participant_id, action_id)
CreateActionLog(log) == logs \cup {log}

\* uuid.New(): an identifier no stored row has
NewLogID == Cardinality(logs) + 1

----------------------------------------------------------------------------
(* verificationService: private helpers *)

validateVerifyRequestQROnly(r) ==
    IF r.qr = <<>> THEN ErrInvalidInput ELSE "none"

\* validateVerifyRequest: "none" or the error code
validateVerifyRequest(r) ==
    IF r.qr = <<>> THEN ErrInvalidInput
    ELSE IF r.code = "" THEN ErrInvalidInput
    ELSE IF r.verifierId = "" THEN ErrInvalidInput
    ELSE "none"

decodeQRPathOnly(qrData) == ExtractUUIDFromQRPath(qrData)

\* extractParticipantFromQR, the decoding part: [ok, id]
decodeQR(qrData) ==
    LET x == ExtractUUIDFromQRPath(qrData) IN
    IF x.ok THEN x
    ELSE IF uuidParseOk(qrData) THEN [ok |-> TRUE, id |-> qrData[1]]
    ELSE [ok |-> FALSE, id |-> "none"]

extractParticipantFromQRRaw(qrData) ==
    LET d == decodeQR(qrData) IN
    IF ~d.ok THEN [err |-> ErrInvalidQRCode, row |-> NoParticipant]
    ELSE LET g == GetParticipantByID(d.id) IN
         IF g.found THEN [err |-> "none", row |-> g.row]
         ELSE [err |-> g.err, row |-> NoParticipant]

\* extractParticipantFromQR: [err, row]
extractParticipantFromQR(qrData) ==
    LET d == decodeQR(qrData) IN
    IF ~d.ok THEN [err |-> ErrInvalidQRCode, row |-> NoParticipant]
    ELSE LET g == GetParticipantByID(d.id) IN
         IF g.found THEN [err |-> "none", row |-> g.row]
         ELSE IF g.err = GormNotFound THEN [err |-> ErrParticipantNotFound, row |-> NoParticipant]
         ELSE [err |-> ErrDatabaseError, row |-> NoParticipant]

\* getAndValidateAction: [err, row]
getAndValidateAction(actionCode) ==
    LET g == GetEventActionByCode(actionCode) IN
    IF ~g.found
    THEN IF g.err = GormNotFound THEN [err |-> ErrActionNotFound, row |-> NoAction]
         ELSE [err |-> ErrDatabaseError, row |-> NoAction]
    ELSE IF ~g.row.isActive THEN [err |-> ErrActionInactive, row |-> NoAction]
    ELSE [err |-> "none", row |-> g.row]

isPaidEventNonNegative(eventID) ==
    IF ~GetEventByID(eventID) THEN FALSE
    ELSE events[eventID].ticketPrice >= 0

isPaidEventFailClosed(eventID) ==
    IF ~GetEventByID(eventID) THEN TRUE
    ELSE events[eventID].ticketPrice > 0

\* isPaidEvent: an event that cannot be loaded counts as free
isPaidEvent(eventID) ==
    IF ~GetEventByID(eventID) THEN FALSE
    ELSE events[eventID].ticketPrice > 0

TruncateNothing(t) == t

\* time.Time.Truncate(24 * time.Hour)
Truncate(t) == t - (t % DayLen)

checkEventDayValidityFailClosed(eventDayID, t) ==
    IF ~GetEventDayByID(eventDayID) THEN ErrEventNotStarted
    ELSE IF t < Truncate(days[eventDayID].date) THEN ErrEventNotStarted
    ELSE "none"

\* checkEventDayValidity: "none" or the error code, at clock value t
checkEventDayValidity(eventDayID, t) ==
    IF ~GetEventDayByID(eventDayID) THEN "none"
    ELSE IF t < Truncate(days[eventDayID].date) THEN ErrEventNotStarted
    ELSE "none"

paymentCheckUnpaidOnly(p) ==
    IF isPaidEvent(p.eventId) /\ p.paymentStatus = "unpaid" THEN ErrPaymentRequired
    ELSE "none"

\* performVerificationChecks, first check: payment status for paid events
paymentCheck(p) ==
    IF isPaidEvent(p.eventId) /\ p.paymentStatus # "paid" THEN ErrPaymentRequired
    ELSE "none"

duplicateCheckOnly(p, a) ==
    IF HasActionLog(p.id, a.id) THEN ErrAlreadyVerified
    ELSE "none"

duplicateAndEventCheckInverted(p, a) ==
    IF Fails("action_logs") THEN ErrDatabaseError
    ELSE IF HasActionLog(p.id, a.id) THEN ErrAlreadyVerified
    ELSE IF a.eventId = p.eventId THEN ErrEventMismatch
    ELSE "none"

\* performVerificationChecks, second and third check: the duplicate query,
\* then event consistency
duplicateAndEventCheck(p, a) ==
    IF Fails("action_logs") THEN ErrDatabaseError
    ELSE IF HasActionLog(p.id, a.id) THEN ErrAlreadyVerified
    ELSE IF a.eventId # p.eventId THEN ErrEventMismatch
    ELSE "none"

newActionLogByParticipant(p, a, v) ==
    [id |-> NewLogID, participantId |-> p.id, actionId |-> a.id,
     verifiedBy |-> p.id, verifiedAt |-> now]

\* createVerificationRecord: the ActionLog built from the loaded rows
newActionLog(p, a, v) ==
    [id |-> NewLogID, participantId |-> p.id, actionId |-> a.id,
     verifiedBy |-> v.id, verifiedAt |-> now]

checkOrderDuplicateFirst == <<"duplicate", "payment", "eventday">>

\* performVerificationChecks: the order in which its checks run
checkOrder == <<"payment", "duplicate", "eventday">>

afterCheckToCreate(g) == "create"

\* the position after check g has passed: the next check, or the insert
afterCheck(g) ==
    LET i == CHOOSE k \in 1..Len(checkOrder) : checkOrder[k] = g IN
    IF i < Len(checkOrder) THEN checkOrder[i + 1] ELSE "create"

----------------------------------------------------------------------------
(* HTTP handlers of the verification requests *)

\* fiber.Status*
StatusOK                  == 200
StatusBadRequest          == 400
StatusUnauthorized        == 401
StatusForbidden           == 403
StatusNotFound            == 404
StatusConflict            == 409
StatusInternalServerError == 500
StatusNotImplemented      == 501

\* VerificationHandler.handleVerificationError: the status for an error code
handleVerificationError(code) ==
    IF code \in {ErrInvalidInput, ErrInvalidQRCode} THEN StatusBadRequest
    ELSE IF code \in {ErrParticipantNotFound, ErrActionNotFound, ErrEventNotFound}
         THEN StatusNotFound
    ELSE IF code = ErrVerifierNotFound THEN StatusUnauthorized
    ELSE IF code \in {ErrPaymentRequired, ErrAlreadyVerified, ErrActionInactive}
         THEN StatusConflict
    ELSE IF code \in {ErrEventMismatch, ErrEventNotStarted} THEN StatusForbidden
    ELSE IF code = ErrPermissionDenied THEN StatusForbidden
    ELSE IF code = ErrNotImplemented THEN StatusNotImplemented
    ELSE StatusInternalServerError

\* Handler.VerifyAction, the handler RegisterRoutes serves at POST /verify:
\* the status it answers the result r of VerifyParticipantAction with
VerifyAction(r) ==
    IF r.kind # Success THEN StatusBadRequest ELSE StatusOK

----------------------------------------------------------------------------
(* Inputs *)

QRInputs       == { <<"p1">>, <<"p2">>, <<"px">> }
CodeInputs     == { "c1", "c2", "cx" }
VerifierInputs == { "u1", "ux" }
Requests       == [qr : QRInputs, code : CodeInputs, verifierId : VerifierInputs]

\* the requests of the concurrent specification: known credentials and codes
RaceRequests   == [qr : {<<"p1">>, <<"p2">>}, code : {"c1", "c2"}, verifierId : {"u1"}]

StatusInputs   == PaymentStatuses \cup {"refunded"}

\* the requests and the deactivations of the specification in which actions are
\* deactivated while requests are in flight
ActRequests    == [qr : {<<"p2">>}, code : {"c2", "c3", "cx"}, verifierId : {"u1"}]
DeactivateInputs == {"a2", "ax", ""}

----------------------------------------------------------------------------
(* Initial state: a migrated database holding a paid event e1 (one day, one *)
(* action, one registered participant), a free event e2 (one day, two      *)
(* actions, one registered participant) and two users; no request in       *)
(* flight.                                                                 *)

InitStore ==
    /\ events = [e \in {"e1", "e2"} |->
                    IF e = "e1"
                    THEN [ticketPrice |-> 10, hasQuota |-> TRUE, ticketQuota |-> SeedQuota]
                    ELSE [ticketPrice |-> 0, hasQuota |-> FALSE, ticketQuota |-> 0]]
    /\ days = [d \in {"d1", "d2"} |->
                    IF d = "d1" THEN [eventId |-> "e1", dayNumber |-> 1, date |-> Day1Date]
                    ELSE [eventId |-> "e2", dayNumber |-> 1, date |-> 0]]
    /\ actions = [a \in {"a1", "a2", "a3"} |->
                    IF a = "a1"
                    THEN [eventId |-> "e1", dayId |-> "d1", code |-> "c1", isActive |-> TRUE]
                    ELSE IF a = "a2"
                    THEN [eventId |-> "e2", dayId |-> "d2", code |-> "c2", isActive |-> TRUE]
                    ELSE [eventId |-> "e2", dayId |-> "d2", code |-> "c3", isActive |-> TRUE]]
    /\ participants = [p \in {"p1", "p2"} |->
                    IF p = "p1"
                    THEN [eventId |-> "e1", paymentStatus |-> "pending", email |-> "m1"]
                    ELSE [eventId |-> "e2", paymentStatus |-> "paid", email |-> "m2"]]
    /\ users = [u \in {"u1", "u2"} |->
                    IF u = "u1" THEN [role |-> "staff"] ELSE [role |-> "admin"]]
    /\ logs = {}
    /\ now = 1

\* no verify request in flight
InitCalls ==
    /\ pc = [c \in Calls |-> "idle"]
    /\ req = [c \in Calls |-> NoRequest]
    /\ participant = [c \in Calls |-> NoParticipant]
    /\ action = [c \in Calls |-> NoAction]
    /\ verifier = [c \in Calls |-> NoUser]
    /\ result = [c \in Calls |-> NoResult]
    /\ succeeded = {}
    /\ prior = {}
    /\ pending = [c \in Calls |-> NoPending]

Init ==
    /\ InitStore
    /\ InitCalls
    /\ resp = [op |-> "none"]
    /\ down = {}

----------------------------------------------------------------------------
(* VerifyParticipantAction, one step per repository call *)

\* the request fails with error code e
Fail(c, e) ==
    /\ pc' = [pc EXCEPT ![c] = "done"]
    /\ result' = [result EXCEPT ![c] = NewVerificationError(e)]

\* Step 1: validateVerifyRequest
validateStep(c, r) ==
    /\ pc[c] = "idle"
    /\ req' = [req EXCEPT ![c] = r]
    /\ LET e == validateVerifyRequest(r) IN
       IF e # "none" THEN Fail(c, e)
       ELSE pc' = [pc EXCEPT ![c] = "participant"] /\ UNCHANGED result
    /\ UNCHANGED <<store, now, participant, action, verifier, succeeded, resp, down, pending>>

\* a request arrives while others may be in flight
Begin(c, r) == validateStep(c, r) /\ UNCHANGED prior

\* no verify request is in flight
AllIdle == \A c \in Calls : pc[c] = "idle"

\* a request arrives while no request of the batch in flight has been answered
BeginBatch(c, r) ==
    /\ \A d \in Calls : pc[d] # "done"
    /\ Begin(c, r)

\* a request arrives when every earlier operation has returned
BeginSeq(c, r) ==
    /\ AllIdle
    /\ resp.op = "none"
    /\ validateStep(c, r)
    /\ prior' = succeeded

\* Step 2: extractParticipantFromQR
StepParticipant(c) ==
    /\ pc[c] = "participant"
    /\ LET x == extractParticipantFromQR(req[c].qr) IN
       IF x.err # "none" THEN Fail(c, x.err) /\ UNCHANGED participant
       ELSE /\ participant' = [participant EXCEPT ![c] = x.row]
            /\ pc' = [pc EXCEPT ![c] = "action"]
            /\ UNCHANGED result
    /\ UNCHANGED <<store, now, req, action, verifier, succeeded, prior, resp, down, pending>>

\* Step 3: getAndValidateAction
StepAction(c) ==
    /\ pc[c] = "action"
    /\ LET x == getAndValidateAction(req[c].code) IN
       IF x.err # "none" THEN Fail(c, x.err) /\ UNCHANGED action
       ELSE /\ action' = [action EXCEPT ![c] = x.row]
            /\ pc' = [pc EXCEPT ![c] = "verifier"]
            /\ UNCHANGED result
    /\ UNCHANGED <<store, now, req, participant, verifier, succeeded, prior, resp, down, pending>>

\* Step 4: userRepo.GetUserByID
StepVerifier(c) ==
    /\ pc[c] = "verifier"
    /\ LET x == GetUserByID(req[c].verifierId) IN
       IF ~x.found THEN Fail(c, ErrVerifierNotFound) /\ UNCHANGED verifier
       ELSE /\ verifier' = [verifier EXCEPT ![c] = x.row]
            /\ pc' = [pc EXCEPT ![c] = checkOrder[1]]
            /\ UNCHANGED result
    /\ UNCHANGED <<store, now, req, participant, action, succeeded, prior, resp, down, pending>>

\* Step 5, performVerificationChecks: isPaidEvent and the payment status
StepPayment(c) ==
    /\ pc[c] = "payment"
    /\ LET e == paymentCheck(participant[c]) IN
       IF e # "none" THEN Fail(c, e)
       ELSE pc' = [pc EXCEPT ![c] = afterCheck("payment")] /\ UNCHANGED result
    /\ UNCHANGED <<store, now, req, participant, action, verifier, succeeded, prior, resp, down, pending>>

\* Step 5, performVerificationChecks: HasActionLog and event consistency
StepDuplicate(c) ==
    /\ pc[c] = "duplicate"
    /\ LET e == duplicateAndEventCheck(participant[c], action[c]) IN
       IF e # "none" THEN Fail(c, e)
       ELSE pc' = [pc EXCEPT ![c] = afterCheck("duplicate")] /\ UNCHANGED result
    /\ UNCHANGED <<store, now, req, participant, action, verifier, succeeded, prior, resp, down, pending>>

\* Step 5, performVerificationChecks: checkEventDayValidity
StepEventDay(c) ==
    /\ pc[c] = "eventday"
    /\ LET e == checkEventDayValidity(action[c].dayId, now) IN
       IF e # "none" THEN Fail(c, e)
       ELSE pc' = [pc EXCEPT ![c] = afterCheck("eventday")] /\ UNCHANGED result
    /\ UNCHANGED <<store, now, req, participant, action, verifier, succeeded, prior, resp, down, pending>>

\* Steps 6 and 7: createVerificationRecord and the successful result
StepCreate(c) ==
    /\ pc[c] = "create"
    /\ IF Fails("action_logs")
       THEN Fail(c, ErrDatabaseError) /\ UNCHANGED <<logs, succeeded>>
       ELSE LET log == newActionLog(participant[c], action[c], verifier[c]) IN
            /\ logs' = CreateActionLog(log)
            /\ result' = [result EXCEPT ![c] = [kind |-> Success, log |-> log]]
            /\ pc' = [pc EXCEPT ![c] = "done"]
            /\ succeeded' = succeeded \cup {<<participant[c].id, action[c].id>>}
    /\ UNCHANGED <<events, days, actions, participants, users, now,
                   req, participant, action, verifier, prior, resp, down, pending>>

\* the answer has been delivered; the goroutine serves the next request
Return(c) ==
    /\ pc[c] = "done"
    /\ pc' = [pc EXCEPT ![c] = "idle"]
    /\ req' = [req EXCEPT ![c] = NoRequest]
    /\ participant' = [participant EXCEPT ![c] = NoParticipant]
    /\ action' = [action EXCEPT ![c] = NoAction]
    /\ verifier' = [verifier EXCEPT ![c] = NoUser]
    /\ result' = [result EXCEPT ![c] = NoResult]
    /\ prior' = {}
    /\ UNCHANGED <<store, now, succeeded, resp, down, pending>>

\* the answer is delivered once every request of the batch has been answered
ReturnBatch(c) ==
    /\ \A d \in Calls : pc[d] \in {"idle", "done"}
    /\ Return(c)

----------------------------------------------------------------------------
(* Collaborators of the engine *)

UpdatePaymentStatusUnchecked(participantID, status) ==
    /\ IF Fails("participants")
       THEN UNCHANGED participants
       ELSE participants' =
               [p \in DOMAIN participants |->
                   IF p = participantID
                   THEN [participants[p] EXCEPT !.paymentStatus = status]
                   ELSE participants[p]]
    /\ UNCHANGED <<events, days, actions, users, logs, now,
                   pc, req, participant, action, verifier, result, succeeded, prior, resp,
                   down, pending>>

\* ParticipantService.UpdatePaymentStatus
UpdatePaymentStatus(participantID, status) ==
    /\ IF status \notin {"unpaid", "pending", "paid"} \/ Fails("participants")
       THEN UNCHANGED participants
       ELSE participants' =
               [p \in DOMAIN participants |->
                   IF p = participantID
                   THEN [participants[p] EXCEPT !.paymentStatus = status]
                   ELSE participants[p]]
    /\ UNCHANGED <<events, days, actions, users, logs, now,
                   pc, req, participant, action, verifier, result, succeeded, prior, resp, down, pending>>

\* eventRepo.DeleteEventAction: UPDATE event_actions SET is_active = false
\* WHERE id = ?; an empty id and an id no row has are errors and change nothing
DeleteEventAction(id) ==
    /\ IF id = "" \/ id \notin DOMAIN actions \/ Fails("event_actions")
       THEN UNCHANGED actions
       ELSE actions' = [actions EXCEPT ![id].isActive = FALSE]
    /\ UNCHANGED <<events, days, participants, users, logs, now,
                   pc, req, participant, action, verifier, result, succeeded, prior, resp, down, pending>>

----------------------------------------------------------------------------
(* EventService: AddEventDay and AddEventAction, one step for the checks   *)
(* and one for the INSERT                                                  *)

\* uuid.New(): the identifiers of the rows added
NewDayIds    == <<"d3", "d4", "d5", "d6">>
NewActionIds == <<"a4", "a5", "a6", "a7">>
SeedDays     == {"d1", "d2"}
SeedActions  == {"a1", "a2", "a3"}
NewDayID     == NewDayIds[Cardinality(DOMAIN days \ SeedDays) + 1]
NewActionID  == NewActionIds[Cardinality(DOMAIN actions \ SeedActions) + 1]

\* the calls of kind op that passed their checks and have not inserted yet
inFlight(op) == { c \in Calls : pending[c].op = op }

frame == <<events, participants, users, logs, now, pc, req, participant, action,
           verifier, result, succeeded, prior, resp, down>>

\* AddEventDay and CreateEventDay, the checks: GetEventByID, then a day of the
\* event with the day number
addEventDayError(eventID, dayNumber) ==
    IF ~GetEventByID(eventID) THEN "event not found"
    ELSE IF \E d \in DOMAIN days :
               days[d].eventId = eventID /\ days[d].dayNumber = dayNumber
         THEN "day number already exists for this event"
    ELSE "none"

\* AddEventDay up to the checks of CreateEventDay
AddEventDayCheck(c, eventID, dayNumber, date) ==
    /\ pending[c] = NoPending
    /\ Cardinality(DOMAIN days \ SeedDays) + Cardinality(inFlight("addDay")) < MaxNewRows
    /\ pending' = [pending EXCEPT ![c] =
          IF addEventDayError(eventID, dayNumber) # "none"
          THEN [op |-> "failed", err |-> addEventDayError(eventID, dayNumber)]
          ELSE [op |-> "addDay", eventId |-> eventID, dayNumber |-> dayNumber,
                date |-> date]]
    /\ UNCHANGED <<days, actions, frame>>

\* CreateEventDay: r.db.Create(day); event_days has a primary key on id and
\* no unique index over (event_id, day_number)
AddEventDayCreate(c) ==
    /\ pending[c].op = "addDay"
    /\ days' = days @@ (NewDayID :> [eventId |-> pending[c].eventId,
                                       dayNumber |-> pending[c].dayNumber,
                                       date |-> pending[c].date])
    /\ pending' = [pending EXCEPT ![c] = [op |-> "created", id |-> NewDayID]]
    /\ UNCHANGED <<actions, frame>>

\* AddEventAction and CreateEventAction, the checks: GetEventByID, the day by
\* id, then an action with the code
addEventActionError(eventID, dayID, code) ==
    IF ~GetEventByID(eventID) THEN "event not found"
    ELSE IF ~GetEventDayByID(dayID) THEN "event day not found"
    ELSE IF \E a \in DOMAIN actions : actions[a].code = code
         THEN "event action with code already exists"
    ELSE "none"

\* AddEventAction up to the checks of CreateEventAction
AddEventActionCheck(c, eventID, dayID, code) ==
    /\ pending[c] = NoPending
    /\ Cardinality(DOMAIN actions \ SeedActions) + Cardinality(inFlight("addAction"))
          < MaxNewRows
    /\ pending' = [pending EXCEPT ![c] =
          IF addEventActionError(eventID, dayID, code) # "none"
          THEN [op |-> "failed", err |-> addEventActionError(eventID, dayID, code)]
          ELSE [op |-> "addAction", eventId |-> eventID, dayId |-> dayID, code |-> code]]
    /\ UNCHANGED <<days, actions, frame>>

\* CreateEventAction: r.db.Create(action); event_actions has a unique index
\* on code, so the INSERT of a code that is stored by now fails
AddEventActionCreate(c) ==
    /\ pending[c].op = "addAction"
    /\ IF \E a \in DOMAIN actions : actions[a].code = pending[c].code
       THEN /\ pending' = [pending EXCEPT ![c] =
                             [op |-> "failed", err |-> "duplicate key"]]
            /\ UNCHANGED actions
       ELSE /\ actions' = actions @@ (NewActionID :>
                             [eventId |-> pending[c].eventId, dayId |-> pending[c].dayId,
                              code |-> pending[c].code, isActive |-> TRUE])
            /\ pending' = [pending EXCEPT ![c] = [op |-> "created", id |-> NewActionID]]
    /\ UNCHANGED <<days, frame>>

\* the answer of the EventService call has been delivered
AdminReturn(c) ==
    /\ pending[c].op \in {"failed", "created"}
    /\ pending' = [pending EXCEPT ![c] = NoPending]
    /\ UNCHANGED <<days, actions, frame>>

----------------------------------------------------------------------------
(* ParticipantService.RegisterParticipant, one step for the checks, one    *)
(* for the INSERT and one for the UPDATE that stores the QR path           *)

NewParticipantIds == <<"p3", "p4", "p5", "p6">>
SeedParticipants  == {"p1", "p2"}
NewParticipantID  == NewParticipantIds[Cardinality(DOMAIN participants \ SeedParticipants) + 1]

regFrame == <<events, days, actions, users, logs, now, pc, req, participant, action,
              verifier, result, succeeded, prior, resp, down>>

registrationStatusPaid(eventID) == "paid"

\* the PaymentStatus of a new participant
registrationStatus(eventID) ==
    IF events[eventID].ticketPrice > 0 THEN "pending" ELSE "paid"

\* RegisterParticipant, the checks: the event, the email within the event
\* (an error of the lookup counts as not registered), the quota
registerError(eventID, email) ==
    IF ~GetEventByID(eventID) THEN "event not found"
    ELSE IF ~Fails("participants")
            /\ \E p \in DOMAIN participants :
                  participants[p].email = email /\ participants[p].eventId = eventID
         THEN "email already registered for this event"
    ELSE IF events[eventID].hasQuota /\ Fails("participants") THEN "failed to check quota"
    ELSE IF events[eventID].hasQuota
            /\ Cardinality({ p \in DOMAIN participants : participants[p].eventId = eventID })
                  >= events[eventID].ticketQuota
         THEN "ticket quota exceeded"
    ELSE "none"

\* RegisterParticipant up to the participant built in memory
RegisterParticipantCheck(c, eventID, email) ==
    /\ pending[c] = NoPending
    /\ Cardinality(DOMAIN participants \ SeedParticipants)
          + Cardinality(inFlight("register")) < MaxNewRows
    /\ pending' = [pending EXCEPT ![c] =
          IF registerError(eventID, email) # "none"
          THEN [op |-> "failed", err |-> registerError(eventID, email)]
          ELSE [op |-> "register", eventId |-> eventID, email |-> email,
                paymentStatus |-> registrationStatus(eventID)]]
    /\ UNCHANGED <<participants, regFrame>>

\* CreateParticipant: r.db.Create(participant)
RegisterParticipantCreate(c) ==
    /\ pending[c].op = "register"
    /\ IF Fails("participants")
       THEN /\ pending' = [pending EXCEPT ![c] = [op |-> "failed", err |-> "create"]]
            /\ UNCHANGED participants
       ELSE /\ participants' = participants @@ (NewParticipantID :>
                   [eventId |-> pending[c].eventId,
                    paymentStatus |-> pending[c].paymentStatus,
                    email |-> pending[c].email])
            /\ pending' = [pending EXCEPT ![c] =
                   [op |-> "registerSave", id |-> NewParticipantID,
                    eventId |-> pending[c].eventId, email |-> pending[c].email,
                    paymentStatus |-> pending[c].paymentStatus]]
    /\ UNCHANGED regFrame

\* UpdateParticipant: r.db.Save(participant) writes every column of the
\* participant held in memory
RegisterParticipantSave(c) ==
    /\ pending[c].op = "registerSave"
    /\ IF Fails("participants")
       THEN /\ pending' = [pending EXCEPT ![c] = [op |-> "failed", err |-> "save"]]
            /\ UNCHANGED participants
       ELSE /\ participants' = [participants EXCEPT ![pending[c].id] =
                   [eventId |-> pending[c].eventId,
                    paymentStatus |-> pending[c].paymentStatus,
                    email |-> pending[c].email]]
            /\ pending' = [pending EXCEPT ![c] = [op |-> "created", id |-> pending[c].id]]
    /\ UNCHANGED regFrame

\* the answer of RegisterParticipant has been delivered
RegisterReturn(c) ==
    /\ pending[c].op \in {"failed", "created"}
    /\ pending' = [pending EXCEPT ![c] = NoPending]
    /\ UNCHANGED <<participants, regFrame>>

\* the statements on table t begin to fail (connection lost, timeout ...)
Outage(t) ==
    /\ Cardinality(down) < MaxDown
    /\ t \notin down
    /\ down' = down \cup {t}
    /\ UNCHANGED <<store, now, pc, req, participant, action, verifier, result,
                   succeeded, prior, resp, pending>>

\* the statements on table t succeed again
Recover(t) ==
    /\ t \in down
    /\ down' = down \ {t}
    /\ UNCHANGED <<store, now, pc, req, participant, action, verifier, result,
                   succeeded, prior, resp, pending>>

\* time passes
Tick ==
    /\ now < MaxTime
    /\ now' = now + 1
    /\ UNCHANGED <<store, pc, req, participant, action, verifier, result,
                   succeeded, prior, resp, down, pending>>

----------------------------------------------------------------------------
(* Query repositories *)

orderedByVerifiedAtAsc(S) ==
    { f \in [1..Cardinality(S) -> S] :
        /\ \A i, j \in 1..Cardinality(S) : i # j => f[i] # f[j]
        /\ \A i, j \in 1..Cardinality(S) : i < j => f[i].verifiedAt <= f[j].verifiedAt }

\* the sequences that list every row of set S once, ORDER BY verified_at DESC;
\* rows with equal verified_at come in an order the database chooses
orderedByVerifiedAtDesc(S) ==
    { f \in [1..Cardinality(S) -> S] :
        /\ \A i, j \in 1..Cardinality(S) : i # j => f[i] # f[j]
        /\ \A i, j \in 1..Cardinality(S) : i < j => f[i].verifiedAt >= f[j].verifiedAt }

\* actionRepo.GetActionLogsByParticipant: the rows selected
logsOfParticipant(participantID) == { l \in logs : l.participantId = participantID }

\* actionRepo.GetActionLogsByEvent: JOIN participants ... WHERE participants.event_id = ?
logsOfEvent(eventID) ==
    { l \in logs : l.participantId \in DOMAIN participants
                   /\ participants[l.participantId].eventId = eventID }

\* OFFSET offset LIMIT limit of an ordered result
page(rows, offset, limit) ==
    IF offset >= Len(rows) THEN <<>>
    ELSE SubSeq(rows, offset + 1, IF offset + limit < Len(rows) THEN offset + limit ELSE Len(rows))

\* participantRepo.GetParticipantCountByEventID
GetParticipantCountByEventID(eventID) ==
    Cardinality({ p \in DOMAIN participants : participants[p].eventId = eventID })

----------------------------------------------------------------------------
(* verificationService: queries and revert.  Each answers in resp. *)

\* VerificationFilters; DateFrom / DateTo 0 is the zero time.Time and ActionID /
\* VerifierID "" the empty string: the filter is not set
NoFilters == [nil |-> TRUE, page |-> 0, pageSize |-> 0, dateFrom |-> 0, dateTo |-> 0,
              actionId |-> "", verifierId |-> ""]

\* "Set default pagination": the page and page size GetEventVerifications uses
normalizePage(filters) ==
    IF filters.nil THEN 1 ELSE IF filters.page < 1 THEN 1 ELSE filters.page

normalizePageSizeBelow100(filters) ==
    IF filters.nil THEN 20
    ELSE IF filters.pageSize < 1 \/ filters.pageSize >= 100 THEN 20
    ELSE filters.pageSize

normalizePageSize(filters) ==
    IF filters.nil THEN 20
    ELSE IF filters.pageSize < 1 \/ filters.pageSize > 100 THEN 20
    ELSE filters.pageSize

totalPagesFloor(total, pageSize) == total \div pageSize

\* totalPages := (int(total) + filters.PageSize - 1) / filters.PageSize
totalPagesOf(total, pageSize) == (total + pageSize - 1) \div pageSize

\* GetParticipantVerificationHistory
GetParticipantVerificationHistory(participantID) ==
    /\ AllIdle
    /\ IF participantID = ""
       THEN resp' = [op |-> "history", err |-> ErrInvalidInput,
                     participantId |-> participantID, rows |-> <<>>]
       ELSE IF ~GetParticipantByID(participantID).found
       THEN resp' = [op |-> "history", err |-> ErrParticipantNotFound,
                     participantId |-> participantID, rows |-> <<>>]
       ELSE IF Fails("action_logs")
       THEN resp' = [op |-> "history", err |-> ErrDatabaseError,
                     participantId |-> participantID, rows |-> <<>>]
       ELSE \E rows \in orderedByVerifiedAtDesc(logsOfParticipant(participantID)) :
               resp' = [op |-> "history", err |-> "none",
                        participantId |-> participantID, rows |-> rows]
    /\ UNCHANGED <<store, now, pc, req, participant, action, verifier, result,
                   succeeded, prior, down, pending>>

\* GetEventVerifications
GetEventVerifications(eventID, filters) ==
    /\ AllIdle
    /\ IF eventID = ""
       THEN resp' = [op |-> "list", err |-> ErrInvalidInput]
       ELSE IF ~GetEventByID(eventID)
       THEN resp' = [op |-> "list", err |-> ErrEventNotFound]
       ELSE IF Fails("action_logs") \/ Fails("participants")
       THEN resp' = [op |-> "list", err |-> ErrDatabaseError]
       ELSE LET pg     == normalizePage(filters)
                size   == normalizePageSize(filters)
                offset == (pg - 1) * size
                total  == Cardinality(logsOfEvent(eventID))
            IN  \E rows \in orderedByVerifiedAtDesc(logsOfEvent(eventID)) :
                   resp' = [op |-> "list", err |-> "none", eventId |-> eventID,
                            filters |-> filters,
                            rows |-> page(rows, offset, size), total |-> total,
                            page |-> pg, pageSize |-> size,
                            totalPages |-> totalPagesOf(total, size)]
    /\ UNCHANGED <<store, now, pc, req, participant, action, verifier, result,
                   succeeded, prior, down, pending>>

\* GetEventVerifications, from "Set default pagination" to the VerificationList,
\* for a count of total that GetActionLogsByEvent returned with the call in resp
Paginate ==
    /\ resp.op = "paginate"
    /\ resp' = [op |-> "pagination", filters |-> resp.filters, total |-> resp.total,
                page |-> normalizePage(resp.filters),
                pageSize |-> normalizePageSize(resp.filters),
                totalPages |-> totalPagesOf(resp.total, normalizePageSize(resp.filters))]
    /\ UNCHANGED <<store, now, pc, req, participant, action, verifier, result,
                   succeeded, prior, down, pending>>

\* calculateVerificationStatistics: GetActionLogsByEvent(eventID, 0, 1), and the
\* number of rows it returned as totalVerifications; the rate is the fraction
\* totalVerifications / totalParticipants, kept as numerator and denominator
calculateVerificationStatistics(eventID, totalParticipants, rows) ==
    LET totalVerifications == Len(page(rows, 0, 1)) IN
    [totalVerifications |-> totalVerifications,
     uniqueParticipants |-> totalVerifications,
     rateNum |-> IF totalParticipants > 0 THEN totalVerifications ELSE 0,
     rateDen |-> IF totalParticipants > 0 THEN totalParticipants ELSE 1]

\* GetVerificationStats
GetVerificationStats(eventID) ==
    /\ AllIdle
    /\ IF eventID = ""
       THEN resp' = [op |-> "stats", err |-> ErrInvalidInput]
       ELSE IF ~GetEventByID(eventID)
       THEN resp' = [op |-> "stats", err |-> ErrEventNotFound]
       ELSE IF Fails("participants") \/ Fails("action_logs")
       THEN resp' = [op |-> "stats", err |-> ErrDatabaseError]
       ELSE \E rows \in orderedByVerifiedAtDesc(logsOfEvent(eventID)) :
               resp' = [op |-> "stats", err |-> "none", eventId |-> eventID,
                        stats |-> calculateVerificationStatistics(
                                     eventID, GetParticipantCountByEventID(eventID), rows)]
    /\ UNCHANGED <<store, now, pc, req, participant, action, verifier, result,
                   succeeded, prior, down, pending>>

canVerifyQuietDuplicate(participantID, actionID) ==
    IF participantID = "" \/ actionID = "" THEN [ok |-> FALSE, err |-> ErrInvalidInput]
    ELSE LET p == GetParticipantByID(participantID)
             a == GetEventActionByID(actionID)
         IN  IF ~p.found THEN [ok |-> FALSE, err |-> ErrParticipantNotFound]
             ELSE IF ~a.found THEN [ok |-> FALSE, err |-> ErrActionNotFound]
             ELSE IF isPaidEvent(p.row.eventId) /\ p.row.paymentStatus # "paid"
                  THEN [ok |-> FALSE, err |-> ErrPaymentRequired]
             ELSE IF Fails("action_logs") THEN [ok |-> FALSE, err |-> ErrDatabaseError]
             ELSE IF HasActionLog(participantID, actionID)
                  THEN [ok |-> FALSE, err |-> "none"]
             ELSE IF a.row.eventId # p.row.eventId
                  THEN [ok |-> FALSE, err |-> ErrEventMismatch]
             ELSE [ok |-> TRUE, err |-> "none"]

\* CanVerifyParticipant: [ok, err]
canVerify(participantID, actionID) ==
    IF participantID = "" \/ actionID = "" THEN [ok |-> FALSE, err |-> ErrInvalidInput]
    ELSE LET p == GetParticipantByID(participantID)
             a == GetEventActionByID(actionID)
         IN  IF ~p.found THEN [ok |-> FALSE, err |-> ErrParticipantNotFound]
             ELSE IF ~a.found THEN [ok |-> FALSE, err |-> ErrActionNotFound]
             ELSE IF isPaidEvent(p.row.eventId) /\ p.row.paymentStatus # "paid"
                  THEN [ok |-> FALSE, err |-> ErrPaymentRequired]
             ELSE IF Fails("action_logs") THEN [ok |-> FALSE, err |-> ErrDatabaseError]
             ELSE IF HasActionLog(participantID, actionID)
                  THEN [ok |-> FALSE, err |-> ErrAlreadyVerified]
             ELSE IF a.row.eventId # p.row.eventId
                  THEN [ok |-> FALSE, err |-> ErrEventMismatch]
             ELSE [ok |-> TRUE, err |-> "none"]

CanVerifyParticipantRecording(participantID, actionID) ==
    /\ AllIdle
    /\ resp' = [op |-> "canVerify", participantId |-> participantID, actionId |-> actionID,
                ok |-> canVerify(participantID, actionID).ok,
                err |-> canVerify(participantID, actionID).err]
    /\ logs' = IF canVerify(participantID, actionID).ok
               THEN CreateActionLog([id |-> NewLogID, participantId |-> participantID,
                                     actionId |-> actionID, verifiedBy |-> "u1",
                                     verifiedAt |-> now])
               ELSE logs
    /\ UNCHANGED <<events, days, actions, participants, users, now,
                   pc, req, participant, action, verifier, result, succeeded, prior, down, pending>>

CanVerifyParticipant(participantID, actionID) ==
    /\ AllIdle
    /\ resp' = [op |-> "canVerify", participantId |-> participantID, actionId |-> actionID,
                ok |-> canVerify(participantID, actionID).ok,
                err |-> canVerify(participantID, actionID).err]
    /\ UNCHANGED <<store, now, pc, req, participant, action, verifier, result,
                   succeeded, prior, down, pending>>

revertErrorImplemented(verificationID, adminID) ==
    IF verificationID = 0 \/ adminID = "" THEN ErrInvalidInput
    ELSE LET admin == GetUserByID(adminID) IN
         IF ~admin.found THEN ErrVerifierNotFound
         ELSE IF admin.row.role # "admin" THEN ErrPermissionDenied
         ELSE "none"

\* RevertVerification: the error it returns; verificationID 0 is the empty string
revertError(verificationID, adminID) ==
    IF verificationID = 0 \/ adminID = "" THEN ErrInvalidInput
    ELSE LET admin == GetUserByID(adminID) IN
         IF ~admin.found THEN ErrVerifierNotFound
         ELSE IF admin.row.role # "admin" THEN ErrPermissionDenied
         ELSE ErrNotImplemented

revertLogsHardDelete(verificationID, adminID) ==
    IF revertError(verificationID, adminID) = ErrNotImplemented
    THEN { l \in logs : l.id # verificationID }
    ELSE logs

\* RevertVerification: the action_logs table it leaves (no statement touches it)
revertLogs(verificationID, adminID) == logs

RevertVerification(verificationID, adminID) ==
    /\ AllIdle
    /\ resp' = [op |-> "revert", verificationId |-> verificationID, adminId |-> adminID,
                err |-> revertError(verificationID, adminID)]
    /\ logs' = revertLogs(verificationID, adminID)
    /\ UNCHANGED <<events, days, actions, participants, users, now,
                   pc, req, participant, action, verifier, result, succeeded, prior, down, pending>>

\* the answer of a query has been delivered
Deliver ==
    /\ resp.op # "none"
    /\ resp' = [op |-> "none"]
    /\ UNCHANGED <<store, now, pc, req, participant, action, verifier, result,
                   succeeded, prior, down, pending>>

EventInputs       == {"e1", "e2", "ex", ""}
ParticipantInputs == {"p1", "p2", "px", ""}
ActionInputs      == {"a1", "a2", "ax", ""}
UserInputs        == {"u1", "u2", "ux", ""}
LogIdInputs       == 0..2
\* filters of listings: paginations with no other filter set
FilterInputs ==
    {NoFilters}
    \cup [nil : {FALSE}, page : 0..2, pageSize : {0, 1, 2, 101}, dateFrom : {0},
          dateTo : {0}, actionId : {""}, verifierId : {""}]

\* the inputs of the specification in which statements fail: requests and
\* queries over known rows
FaultRequests == [qr : {<<"p1">>, <<"p2">>}, code : {"c1", "c2"}, verifierId : {"u1"}]
FaultParticipantInputs == {"p1"}
FaultEventInputs == {"e1"}
FaultActionInputs == {"a1"}

\* the inputs of the EventService calls
AdminEventInputs == {"e1", "e2", "ex"}
DayNumberInputs  == {1, 2}
AdminDayInputs   == {"d1", "d2", "d3", "dx"}
AdminCodeInputs  == {"c1", "c4", "c5"}

\* the inputs of RegisterParticipant and of UpdatePaymentStatus
RegEventInputs  == {"e1", "e2", "ex"}
EmailInputs     == {"m1", "m3", "m4"}
RegParticipantInputs == {"p1", "p3", "px"}

\* the inputs of the specification in which registered participants are
\* verified: registrations to the paid and to the free event, and requests
\* with the credential of the first participant registered
JoinEventInputs == {"e1", "e2"}
JoinEmailInputs == {"m3"}
JoinRequests    == [qr : {<<"p3">>}, code : {"c1", "c2"}, verifierId : {"u1"}]
JoinStatusInputs == {"paid", "unpaid"}

\* the inputs of the pagination: pages and page sizes below, at and above the
\* limits, and every count up to MaxTotal
PageFilterInputs ==
    {NoFilters}
    \cup [nil : {FALSE}, page : -1..3, pageSize : {-1, 0, 1, 2, 20, 99, 100, 101},
          dateFrom : {0}, dateTo : {0}, actionId : {""}, verifierId : {""}]
TotalInputs == 0..MaxTotal

\* the inputs of the query specification: verify requests that can succeed,
\* and listings with every combination of the other filters
QueryRequests == [qr : {<<"p1">>, <<"p2">>}, code : {"c1", "c2", "c3"}, verifierId : {"u1"}]
QueryActionInputs == {"a1", "a3", "ax"}
QueryFilterInputs ==
    {NoFilters}
    \cup [nil : {FALSE}, page : 1..2, pageSize : {1, 2}, dateFrom : {0},
          dateTo : {0}, actionId : {""}, verifierId : {""}]
    \cup [nil : {FALSE}, page : {1}, pageSize : {2}, dateFrom : {0, MaxTime},
          dateTo : {0, 1}, actionId : {"", "a2"}, verifierId : {"", "u2"}]

\* the inputs of the decoding: every payload of at most MaxQRLen symbols, the
\* empty one included; "zz" is a run that is no identifier
QRSymbols  == {"/", ".", "p1", "px", "zz"}
QRPayloads == UNION { [1..n -> QRSymbols] : n \in 0..MaxQRLen }
QRRequests == [qr : QRPayloads, code : {"c1", ""}, verifierId : {"u1", ""}]
\* the tables the lookups of a verify request read
LookupTables == {"participants", "event_actions", "users"}

----------------------------------------------------------------------------
(* Specifications *)

\* concurrent verify requests against a store whose payment statuses and
\* clock change underneath them
Next ==
    \/ \E c \in Calls, r \in RaceRequests : Begin(c, r)
    \/ \E c \in Calls : StepParticipant(c)
    \/ \E c \in Calls : StepAction(c)
    \/ \E c \in Calls : StepVerifier(c)
    \/ \E c \in Calls : StepPayment(c)
    \/ \E c \in Calls : StepDuplicate(c)
    \/ \E c \in Calls : StepEventDay(c)
    \/ \E c \in Calls : StepCreate(c)
    \/ \E c \in Calls : Return(c)
    \/ \E s \in StatusInputs : UpdatePaymentStatus("p1", s)
    \/ Tick

Spec == Init /\ [][Next]_vars

\* one operation at a time: verify requests, the queries and revert, each
\* started after the one before has returned
NextSeq ==
    \/ \E r \in Requests : BeginSeq(1, r)
    \/ \E c \in Calls : StepParticipant(c)
    \/ \E c \in Calls : StepAction(c)
    \/ \E c \in Calls : StepVerifier(c)
    \/ \E c \in Calls : StepPayment(c)
    \/ \E c \in Calls : StepDuplicate(c)
    \/ \E c \in Calls : StepEventDay(c)
    \/ \E c \in Calls : StepCreate(c)
    \/ \E c \in Calls : Return(c)
    \/ \E p \in ParticipantInputs : GetParticipantVerificationHistory(p)
    \/ \E e \in EventInputs, f \in FilterInputs : GetEventVerifications(e, f)
    \/ \E e \in EventInputs : GetVerificationStats(e)
    \/ \E p \in ParticipantInputs, a \in ActionInputs : CanVerifyParticipant(p, a)
    \/ \E v \in LogIdInputs, u \in UserInputs : RevertVerification(v, u)
    \/ Deliver
    \/ \E p \in DOMAIN participants, s \in StatusInputs : UpdatePaymentStatus(p, s)
    \/ Tick

SpecSeq == Init /\ [][NextSeq]_vars

\* the queries over a store that sequential verify requests fill: several
\* redemptions per participant and per event, at different times
NextQuery ==
    \/ \E r \in QueryRequests : BeginSeq(1, r)
    \/ \E c \in Calls : StepParticipant(c)
    \/ \E c \in Calls : StepAction(c)
    \/ \E c \in Calls : StepVerifier(c)
    \/ \E c \in Calls : StepPayment(c)
    \/ \E c \in Calls : StepDuplicate(c)
    \/ \E c \in Calls : StepEventDay(c)
    \/ \E c \in Calls : StepCreate(c)
    \/ \E c \in Calls : Return(c)
    \/ \E p \in ParticipantInputs : GetParticipantVerificationHistory(p)
    \/ \E e \in EventInputs, f \in QueryFilterInputs : GetEventVerifications(e, f)
    \/ \E e \in EventInputs : GetVerificationStats(e)
    \/ \E p \in ParticipantInputs, a \in QueryActionInputs : CanVerifyParticipant(p, a)
    \/ Deliver
    \/ \E s \in {"paid", "unpaid"} : UpdatePaymentStatus("p1", s)
    \/ Tick

SpecQuery == Init /\ [][NextQuery]_vars

\* verify requests racing with the deactivation of an action
NextAct ==
    \/ \E c \in Calls, r \in ActRequests : Begin(c, r)
    \/ \E c \in Calls : StepParticipant(c)
    \/ \E c \in Calls : StepAction(c)
    \/ \E c \in Calls : StepVerifier(c)
    \/ \E c \in Calls : StepPayment(c)
    \/ \E c \in Calls : StepDuplicate(c)
    \/ \E c \in Calls : StepEventDay(c)
    \/ \E c \in Calls : StepCreate(c)
    \/ \E c \in Calls : Return(c)
    \/ \E a \in DeactivateInputs : DeleteEventAction(a)

SpecAct == Init /\ [][NextAct]_vars

\* batches of two verify requests that run concurrently; payments and the
\* clock change between the batches
NextBatch ==
    \/ \E c \in {1, 2}, r \in RaceRequests : BeginBatch(c, r)
    \/ \E c \in Calls : StepParticipant(c)
    \/ \E c \in Calls : StepAction(c)
    \/ \E c \in Calls : StepVerifier(c)
    \/ \E c \in Calls : StepPayment(c)
    \/ \E c \in Calls : StepDuplicate(c)
    \/ \E c \in Calls : StepEventDay(c)
    \/ \E c \in Calls : StepCreate(c)
    \/ \E c \in Calls : ReturnBatch(c)
    \/ AllIdle /\ \E s \in StatusInputs : UpdatePaymentStatus("p1", s)
    \/ AllIdle /\ Tick

SpecBatch == Init /\ [][NextBatch]_vars

\* concurrent calls of EventService
NextAdmin ==
    \/ \E c \in Calls, e \in AdminEventInputs, n \in DayNumberInputs :
          AddEventDayCheck(c, e, n, 0)
    \/ \E c \in Calls : AddEventDayCreate(c)
    \/ \E c \in Calls, e \in AdminEventInputs, d \in AdminDayInputs, k \in AdminCodeInputs :
          AddEventActionCheck(c, e, d, k)
    \/ \E c \in Calls : AddEventActionCreate(c)
    \/ \E c \in Calls : AdminReturn(c)

SpecAdmin == Init /\ [][NextAdmin]_vars

\* concurrent registrations and updates of the payment status
NextReg ==
    \/ \E c \in Calls, e \in RegEventInputs, m \in EmailInputs :
          RegisterParticipantCheck(c, e, m)
    \/ \E c \in Calls : RegisterParticipantCreate(c)
    \/ \E c \in Calls : RegisterParticipantSave(c)
    \/ \E c \in Calls : RegisterReturn(c)
    \/ \E p \in RegParticipantInputs, s \in StatusInputs : UpdatePaymentStatus(p, s)

SpecReg == Init /\ [][NextReg]_vars

\* the operations of the engine, one at a time, while statements on a table
\* may fail and recover between any two repository calls
NextFault ==
    \/ \E r \in FaultRequests : BeginSeq(1, r)
    \/ \E c \in Calls : StepParticipant(c)
    \/ \E c \in Calls : StepAction(c)
    \/ \E c \in Calls : StepVerifier(c)
    \/ \E c \in Calls : StepPayment(c)
    \/ \E c \in Calls : StepDuplicate(c)
    \/ \E c \in Calls : StepEventDay(c)
    \/ \E c \in Calls : StepCreate(c)
    \/ \E c \in Calls : Return(c)
    \/ \E p \in FaultParticipantInputs : GetParticipantVerificationHistory(p)
    \/ \E e \in FaultEventInputs : GetEventVerifications(e, NoFilters)
    \/ \E e \in FaultEventInputs : GetVerificationStats(e)
    \/ \E p \in FaultParticipantInputs, a \in FaultActionInputs : CanVerifyParticipant(p, a)
    \/ \E u \in {"u2"} : RevertVerification(1, u)
    \/ Deliver
    \/ \E s \in {"paid"} : UpdatePaymentStatus("p1", s)
    \/ \E t \in Tables : Outage(t)
    \/ \E t \in Tables : Recover(t)

SpecFault == Init /\ [][NextFault]_vars

\* registrations, updates of the payment status and verify requests for
\* the participants registered, all concurrent
NextJoin ==
    \/ \E c \in Calls, e \in JoinEventInputs, m \in JoinEmailInputs :
          RegisterParticipantCheck(c, e, m)
    \/ \E c \in Calls : RegisterParticipantCreate(c)
    \/ \E c \in Calls : RegisterParticipantSave(c)
    \/ \E c \in Calls : RegisterReturn(c)
    \/ \E r \in JoinRequests : Begin(1, r)
    \/ \E c \in Calls : StepParticipant(c)
    \/ \E c \in Calls : StepAction(c)
    \/ \E c \in Calls : StepVerifier(c)
    \/ \E c \in Calls : StepPayment(c)
    \/ \E c \in Calls : StepDuplicate(c)
    \/ \E c \in Calls : StepEventDay(c)
    \/ \E c \in Calls : StepCreate(c)
    \/ \E c \in Calls : Return(c)
    \/ \E p \in DOMAIN participants \ SeedParticipants, s \in JoinStatusInputs :
          UpdatePaymentStatus(p, s)
    \/ Tick

SpecJoin == Init /\ [][NextJoin]_vars

\* verify requests with every credential payload, one at a time, while the
\* statements on a table the lookups read may fail
NextQR ==
    \/ \E r \in QRRequests : BeginSeq(1, r)
    \/ \E c \in Calls : StepParticipant(c)
    \/ \E c \in Calls : StepAction(c)
    \/ \E c \in Calls : StepVerifier(c)
    \/ \E c \in Calls : StepPayment(c)
    \/ \E c \in Calls : StepDuplicate(c)
    \/ \E c \in Calls : StepEventDay(c)
    \/ \E c \in Calls : StepCreate(c)
    \/ \E c \in Calls : Return(c)
    \/ \E s \in {"paid"} : AllIdle /\ UpdatePaymentStatus("p1", s)
    \/ \E t \in LookupTables : Outage(t)
    \/ \E t \in LookupTables : Recover(t)
    \/ AllIdle /\ Tick

SpecQR == Init /\ [][NextQR]_vars

\* the pagination of a listing, for every filter and every count
InitPage ==
    /\ InitStore
    /\ InitCalls
    /\ resp \in [op : {"paginate"}, filters : PageFilterInputs, total : TotalInputs]
    /\ down = {}

NextPage == Paginate

SpecPage == InitPage /\ [][NextPage]_vars

----------------------------------------------------------------------------
(* Properties *)

logsOfPair(p, a) == { l \in logs : l.participantId = p /\ l.actionId = a }

\* the request of c has returned
Done(c) == pc[c] = "done"

\* participant, action and verifier of the request of c all resolved
Resolved(c) ==
    /\ participant[c].id # "none"
    /\ action[c].id # "none"
    /\ verifier[c].id # "none"

\* the event of the participant c loaded is a paid one / a free one
OfPaidEvent(c) == events[participant[c].eventId].ticketPrice > 0
OfFreeEvent(c) == events[participant[c].eventId].ticketPrice = 0

\* C1: in every reachable state the store holds at most one ActionLog for
\* each (participant, action) pair.
C1_AtMostOneLogPerPair ==
    \A l1, l2 \in logs :
        (l1.participantId = l2.participantId /\ l1.actionId = l2.actionId) => l1 = l2

\* C2: when all the verify requests are for one (participant, action) pair, ran
\* against a store that held no ActionLog of the pair, and every other gate
\* passed, exactly one of them returned success and the others AlreadyVerified.
C2_ExactlyOneSuccess ==
    \A p \in DOMAIN participants, a \in DOMAIN actions :
        ( /\ \A c \in Calls : /\ Done(c)
                              /\ participant[c].id = p /\ action[c].id = a
                              /\ result[c].kind \in {Success, ErrAlreadyVerified}
          /\ logsOfPair(p, a) \subseteq { result[c].log : c \in Calls } )
        => /\ Cardinality({ c \in Calls : result[c].kind = Success }) = 1
           /\ Cardinality({ c \in Calls : result[c].kind = ErrAlreadyVerified })
                 = NumCalls - 1

\* C3: sequential idempotence: once a verify of (P, A) has returned success
\* there is exactly one ActionLog of (P, A), and every later verify of (P, A)
\* that resolves its rows and passes the payment gate returns AlreadyVerified.
C3_SequentialIdempotence ==
    /\ \A pr \in succeeded : Cardinality(logsOfPair(pr[1], pr[2])) = 1
    /\ \A c \in Calls :
          ( /\ Done(c) /\ Resolved(c)
            /\ <<participant[c].id, action[c].id>> \in prior
            /\ result[c].kind # ErrPaymentRequired )
          => result[c].kind = ErrAlreadyVerified

C3_Witness ==
    \E c \in Calls :
        /\ Done(c) /\ Resolved(c)
        /\ <<participant[c].id, action[c].id>> \in prior
        /\ result[c].kind = ErrAlreadyVerified
        /\ Cardinality(logsOfPair(participant[c].id, action[c].id)) = 1

C5_FreeEventBypass ==
    \A c \in Calls :
        (Done(c) /\ Resolved(c) /\ OfFreeEvent(c))
        => /\ result[c].kind # ErrPaymentRequired
           /\ result[c].kind \notin {ErrAlreadyVerified, ErrEventMismatch, ErrEventNotStarted}
                 => (result[c].kind = Success /\ result[c].log \in logs)

C5_Witness ==
    \E c \in Calls :
        /\ Done(c) /\ Resolved(c) /\ OfFreeEvent(c)
        /\ participant[c].paymentStatus = "unpaid"
        /\ result[c].kind = Success

\* C6 as stated: whenever the event of the action differs from the event of
\* the participant, verify fails with EventMismatch, whatever the other gates.
C6_MismatchAlways ==
    \A c \in Calls :
        (Done(c) /\ Resolved(c) /\ action[c].eventId # participant[c].eventId)
        => result[c].kind = ErrEventMismatch

\* C6 amended: whenever the event of the action differs from the event of the
\* participant, verify fails: with PaymentRequired when the payment gate
\* fails, else with AlreadyVerified when an ActionLog of the pair exists, else
\* with EventMismatch.
C6_MismatchAfterEarlierGates ==
    \A c \in Calls :
        (Done(c) /\ Resolved(c) /\ action[c].eventId # participant[c].eventId)
        => result[c].kind =
              IF OfPaidEvent(c) /\ participant[c].paymentStatus # "paid"
              THEN ErrPaymentRequired
              ELSE IF logsOfPair(participant[c].id, action[c].id) # {}
              THEN ErrAlreadyVerified
              ELSE ErrEventMismatch

C6_Witness ==
    \E c \in Calls :
        /\ Done(c) /\ Resolved(c) /\ action[c].eventId # participant[c].eventId
        /\ result[c].kind = ErrEventMismatch

\* the day boundary of a date: the multiple of DayLen that begins its day
DayBoundary(date) ==
    CHOOSE b \in 0..date : b % DayLen = 0 /\ b <= date /\ date < b + DayLen

\* C7: a verify that reaches the temporal gate with the EventDay of its action
\* resolvable fails with EventNotStarted exactly when the clock is before the
\* day boundary of the EventDay date, and otherwise goes on to record.
C7_TemporalGate ==
    [][ \A c \in Calls :
          (pc[c] = "eventday" /\ pc'[c] # "eventday" /\ action[c].dayId \in DOMAIN days)
          => IF now < DayBoundary(days[action[c].dayId].date)
             THEN pc'[c] = "done" /\ result'[c].kind = ErrEventNotStarted
             ELSE pc'[c] = "create" /\ result'[c].kind = "none" ]_vars

\* verified on the day of the event, before the time of day of its date
C7_Witness ==
    \E c \in Calls :
        /\ Done(c) /\ result[c].kind = Success
        /\ result[c].log.verifiedAt < days[action[c].dayId].date
        /\ result[c].log.verifiedAt >= DayBoundary(days[action[c].dayId].date)

\* C8: the gates are evaluated in the order existence (participant, action,
\* verifier), payment, duplicate, event consistency, temporal, and verify
\* returns the failure of the first gate that fails.
C8_GateOrder ==
    \A c \in Calls : Done(c) =>
        /\ participant[c].id = "none"
              => /\ result[c].kind \in {ErrInvalidInput, ErrInvalidQRCode,
                                        ErrParticipantNotFound, ErrDatabaseError}
                 /\ action[c] = NoAction /\ verifier[c] = NoUser
        /\ (participant[c].id # "none" /\ action[c].id = "none")
              => /\ result[c].kind \in {ErrActionNotFound, ErrActionInactive, ErrDatabaseError}
                 /\ verifier[c] = NoUser
        /\ (participant[c].id # "none" /\ action[c].id # "none" /\ verifier[c].id = "none")
              => result[c].kind = ErrVerifierNotFound
        /\ (Resolved(c) /\ OfPaidEvent(c) /\ participant[c].paymentStatus # "paid")
              => result[c].kind = ErrPaymentRequired
        /\ (Resolved(c) /\ ~(OfPaidEvent(c) /\ participant[c].paymentStatus # "paid"))
              => /\ <<participant[c].id, action[c].id>> \in prior
                        => result[c].kind = ErrAlreadyVerified
                 /\ result[c].kind = ErrAlreadyVerified
                        => logsOfPair(participant[c].id, action[c].id) # {}
                 /\ action[c].eventId # participant[c].eventId
                        => result[c].kind \in {ErrAlreadyVerified, ErrEventMismatch}
                 /\ result[c].kind \in {ErrEventNotStarted, Success}
                        => action[c].eventId = participant[c].eventId

\* an unpaid participant of a paid event who already has the ActionLog gets
\* PaymentRequired
C8_Witness ==
    \E c \in Calls :
        /\ Done(c) /\ Resolved(c) /\ OfPaidEvent(c)
        /\ participant[c].paymentStatus # "paid"
        /\ logsOfPair(participant[c].id, action[c].id) # {}
        /\ result[c].kind = ErrPaymentRequired

\* C9: a successful verify adds exactly one ActionLog, with a fresh id, keyed
\* to the resolved participant, action and verifier, verifiedAt the current
\* time; that record is the one returned.
C9_RecordsOneLog ==
    [][ \A c \in Calls :
          (pc[c] = "create" /\ pc'[c] = "done")
          => LET l == result'[c].log IN
             /\ result'[c].kind = Success
             /\ l \notin logs /\ logs' = logs \cup {l}
             /\ \A x \in logs : x.id # l.id
             /\ l.participantId = participant[c].id /\ l.participantId = req[c].qr[1]
             /\ l.actionId = action[c].id /\ actions[l.actionId].code = req[c].code
             /\ l.verifiedBy = verifier[c].id /\ l.verifiedBy = req[c].verifierId
             /\ l.verifiedAt = now ]_vars

C9_Witness ==
    \E c \in Calls :
        /\ Done(c) /\ result[c].kind = Success
        /\ result[c].log \in logs
        /\ result[c].log.verifiedBy = req[c].verifierId

actionsWithCode(code) == { a \in DOMAIN actions : actions[a].code = code }
activeWithCode(code)  == { a \in actionsWithCode(code) : actions[a].isActive }

\* C11: the action lookup of a verify whose code matches no action fails with
\* ActionNotFound, and that of a verify whose code matches only an inactive
\* action fails with ActionInactive; neither creates an ActionLog.
C11_ActionLookupErrors ==
    [][ \A c \in Calls :
          (pc[c] = "action" /\ pc'[c] # "action" /\ activeWithCode(req[c].code) = {})
          => /\ pc'[c] = "done"
             /\ result'[c].log = NoLog
             /\ logs' = logs
             /\ result'[c].kind = IF actionsWithCode(req[c].code) = {}
                                  THEN ErrActionNotFound ELSE ErrActionInactive ]_vars

\* C12: no ActionLog is created for an action at a moment when its isActive
\* flag is false, however verify and the deactivation interleave.
C12_InactiveNeverRedeemed ==
    [][ \A l \in logs' \ logs : actions[l.actionId].isActive ]_vars

verifyOutcome(participantID, actionID) ==
    LET x == extractParticipantFromQR(<<participantID>>)
        y == getAndValidateAction(actions[actionID].code)
    IN  IF x.err # "none" THEN x.err
        ELSE IF y.err # "none" THEN y.err
        ELSE IF paymentCheck(x.row) # "none" THEN paymentCheck(x.row)
        ELSE IF duplicateAndEventCheck(x.row, y.row) # "none"
             THEN duplicateAndEventCheck(x.row, y.row)
        ELSE IF checkEventDayValidity(y.row.dayId, now) # "none"
             THEN checkEventDayValidity(y.row.dayId, now)
        ELSE Success

\* C14: canVerify answers true exactly when a verify by a known verifier for
\* the same participant and action in the same state would succeed, and
\* otherwise answers the failure kind that verify would return.
C14_CanVerifyIsDryRun ==
    [][ ( /\ resp' # resp
          /\ resp'.op = "canVerify"
          /\ resp'.participantId # ""
          /\ resp'.actionId \in DOMAIN actions )
        => /\ resp'.ok = (verifyOutcome(resp'.participantId, resp'.actionId) = Success)
           /\ ~resp'.ok => resp'.err = verifyOutcome(resp'.participantId, resp'.actionId)
      ]_vars

ReadOps == {"history", "list", "stats", "canVerify"}

\* C15: a step in which historyForParticipant, listForEvent, statsForEvent or
\* canVerify answers, with a result or with a failure, leaves participants,
\* events, days, actions, users and ActionLogs as they were.
C15_ReadsLeaveStore ==
    [][ (resp' # resp /\ resp'.op \in ReadOps) => store' = store ]_vars

\* every read operation can answer over a store that holds ActionLogs
C15_Witness ==
    /\ resp.op = "canVerify"
    /\ resp.ok
    /\ logs # {}

\* the ActionLogs of event eventID that filters f select; an empty actionId or
\* verifierId and a zero dateFrom or dateTo select every record
matching(eventID, f) ==
    { l \in logsOfEvent(eventID) :
        /\ f.actionId = "" \/ l.actionId = f.actionId
        /\ f.verifierId = "" \/ l.verifiedBy = f.verifierId
        /\ f.dateFrom = 0 \/ l.verifiedAt >= f.dateFrom
        /\ f.dateTo = 0 \/ l.verifiedAt <= f.dateTo }

\* C16: a listing of an event holds only ActionLogs of participants of the
\* event that the filters actionId, verifierId and [dateFrom, dateTo] select,
\* and its total is the number of those records.
C16_ListHonoursFilters ==
    (resp.op = "list" /\ resp.err = "none")
    => /\ \A i \in DOMAIN resp.rows : resp.rows[i] \in matching(resp.eventId, resp.filters)
       /\ resp.total = Cardinality(matching(resp.eventId, resp.filters))

\* C17: the page and page size of a listing are normalized: a page below 1
\* becomes 1 and a page size outside [1, 100] becomes 20, values in range are
\* returned unchanged, and the results are always a page >= 1 and a page size
\* in [1, 100].
C17_PaginationNormalized ==
    resp.op = "pagination"
    => /\ resp.page >= 1
       /\ resp.pageSize \in 1..100
       /\ ~resp.filters.nil =>
             /\ resp.page = IF resp.filters.page < 1 THEN 1 ELSE resp.filters.page
             /\ resp.pageSize = IF resp.filters.pageSize \in 1..100
                                THEN resp.filters.pageSize ELSE 20

\* page sizes at both limits and a page below 1 were normalized
C17_Witness ==
    /\ resp.op = "pagination"
    /\ ~resp.filters.nil
    /\ resp.filters.page < 1
    /\ resp.filters.pageSize = 100
    /\ resp.pageSize = 100

\* C18: totalPages is the ceiling of total / pageSize: 0 when total is 0, and
\* otherwise the least k with k * pageSize >= total.
C18_TotalPagesCeiling ==
    resp.op = "pagination"
    => /\ resp.total = 0 => resp.totalPages = 0
       /\ resp.total > 0 =>
             /\ resp.totalPages * resp.pageSize >= resp.total
             /\ (resp.totalPages - 1) * resp.pageSize < resp.total

\* total = 45 with pageSize = 20 gave 3 pages
C18_Witness ==
    /\ resp.op = "pagination"
    /\ resp.total = 45
    /\ resp.pageSize = 20
    /\ resp.totalPages = 3

\* C19: the history of an existing participant holds every ActionLog of the
\* participant once and no other record, each record's verifiedAt being >=
\* that of the next.
C19_HistoryComplete ==
    resp.op = "history"
    => /\ resp.participantId \in DOMAIN participants => resp.err = "none"
       /\ resp.err = "none" =>
             /\ { resp.rows[i] : i \in DOMAIN resp.rows }
                   = { l \in logs : l.participantId = resp.participantId }
             /\ \A i, j \in DOMAIN resp.rows : i # j => resp.rows[i] # resp.rows[j]
             /\ \A i, j \in DOMAIN resp.rows :
                   i < j => resp.rows[i].verifiedAt >= resp.rows[j].verifiedAt

\* a history of two redemptions made at different times, while another
\* participant has a redemption too
C19_Witness ==
    /\ resp.op = "history"
    /\ resp.err = "none"
    /\ Len(resp.rows) = 2
    /\ resp.rows[1].verifiedAt > resp.rows[2].verifiedAt
    /\ \E l \in logs : l.participantId # resp.participantId

\* C20: the statistics of an event give as totalVerifications the number of
\* ActionLogs whose participant belongs to the event, however many there are.
C20_StatsCountAll ==
    (resp.op = "stats" /\ resp.err = "none")
    => resp.stats.totalVerifications
          = Cardinality({ l \in logs : participants[l.participantId].eventId = resp.eventId })

\* C21: the statistics of an event give as verificationRate the number of
\* ActionLogs of the event divided by the number of its participants, 0 when
\* it has no participant, and as uniqueParticipants the totalVerifications
\* they report.
C21_StatsRate ==
    (resp.op = "stats" /\ resp.err = "none")
    => LET n == Cardinality({ l \in logs :
                                participants[l.participantId].eventId = resp.eventId })
           m == Cardinality({ p \in DOMAIN participants :
                                participants[p].eventId = resp.eventId })
       IN  /\ m = 0 => resp.stats.rateNum = 0
           /\ m > 0 => resp.stats.rateNum * m = n * resp.stats.rateDen
           /\ resp.stats.uniqueParticipants = resp.stats.totalVerifications

\* C22: a revert with a redemption id by a caller that is not an admin, a
\* user of another role or an id of no user, fails with PermissionDenied.
C22_RevertNeedsAdmin ==
    ( /\ resp.op = "revert"
      /\ resp.verificationId # 0 /\ resp.adminId # ""
      /\ resp.adminId \in DOMAIN users => users[resp.adminId].role # "admin" )
    => resp.err = ErrPermissionDenied

C24_FailuresAreTyped ==
    /\ Cardinality(VerificationErrorType) = 14
    /\ \A c \in Calls : Done(c) => result[c].kind \in VerificationErrorType \cup {Success}
    /\ resp.op \in ReadOps \cup {"revert"} => resp.err \in VerificationErrorType \cup {"none"}

\* a verify failed on a statement that returned an error
C24_Witness ==
    /\ down # {}
    /\ \E c \in Calls : Done(c) /\ result[c].kind = ErrDatabaseError

\* the status category the kinds of failure are to be answered with
statusCategory ==
    [k \in {ErrInvalidInput, ErrInvalidQRCode} |-> 400]
    @@ [k \in {ErrParticipantNotFound, ErrActionNotFound, ErrEventNotFound} |-> 404]
    @@ [k \in {ErrVerifierNotFound} |-> 401]
    @@ [k \in {ErrPaymentRequired, ErrAlreadyVerified, ErrActionInactive} |-> 409]
    @@ [k \in {ErrEventMismatch, ErrEventNotStarted, ErrPermissionDenied} |-> 403]

\* C26: a verification request that failed is answered with the status of
\* its kind: 400 for InvalidInput and InvalidCredential, 404 for the not-found
\* kinds, 401 for VerifierNotFound, 409 for PaymentRequired, AlreadyVerified
\* and ActionInactive, 403 for EventMismatch, EventNotStarted and
\* PermissionDenied.
C26_StatusByKind ==
    \A c \in Calls :
        (Done(c) /\ result[c].kind \in DOMAIN statusCategory)
        => VerifyAction(result[c]) = statusCategory[result[c].kind]

\* C30: a verify that reaches the temporal gate while the EventDay of its
\* action cannot be resolved passes the gate and goes on to record the
\* redemption.
C30_UnresolvedDaySkipsGate ==
    [][ \A c \in Calls :
          (pc[c] = "eventday" /\ pc'[c] # "eventday" /\ ~GetEventDayByID(action[c].dayId))
          => pc'[c] = "create" /\ result'[c] = result[c] ]_vars

\* a redemption was recorded before the day of its action began
C30_Witness ==
    \E c \in Calls :
        /\ Done(c) /\ result[c].kind = Success
        /\ result[c].log \in logs
        /\ result[c].log.verifiedAt < DayBoundary(days[action[c].dayId].date)

\* the ActionLogs stored before the requests that are now answered began
startLogs == logs \ { result[x].log : x \in Calls }

\* the answer the request of c gets when it runs alone on the store as it
\* was when the batch began
aloneKind(c) ==
    LET p == participant[c]
        a == action[c]
    IN  IF events[p.eventId].ticketPrice > 0 /\ participants[p.id].paymentStatus # "paid"
        THEN ErrPaymentRequired
        ELSE IF \E l \in startLogs : l.participantId = p.id /\ l.actionId = a.id
        THEN ErrAlreadyVerified
        ELSE IF a.eventId # p.eventId THEN ErrEventMismatch
        ELSE IF now < DayBoundary(days[a.dayId].date) THEN ErrEventNotStarted
        ELSE Success

\* C25: two verify requests for different (participant, action) pairs that
\* run concurrently each get the answer they get when run alone, and leave
\* the store the ActionLogs it had plus one for each request that succeeded.
C25_DifferentPairsIndependent ==
    \A c, d \in Calls :
        ( /\ c # d /\ Done(c) /\ Done(d) /\ Resolved(c) /\ Resolved(d)
          /\ <<participant[c].id, action[c].id>> # <<participant[d].id, action[d].id>> )
        => /\ result[c].kind = aloneKind(c)
           /\ result[c].kind = Success
                 => logsOfPair(participant[c].id, action[c].id) = {result[c].log}
           /\ result[c].kind # Success
                 => logsOfPair(participant[c].id, action[c].id) \subseteq startLogs
           /\ Cardinality(logs) = Cardinality(startLogs)
                 + Cardinality({ x \in {c, d} : result[x].kind = Success })

\* two requests for different pairs were both recorded at the same time
C25_Witness ==
    \E c, d \in Calls :
        /\ c # d /\ Done(c) /\ Done(d)
        /\ result[c].kind = Success /\ result[d].kind = Success
        /\ participant[c].id # participant[d].id
        /\ result[c].log.verifiedAt = result[d].log.verifiedAt

\* C27: the eventId of every EventAction is the eventId of the EventDay it
\* references, after any AddEventDay and AddEventAction calls.
C27_ActionEventIsDayEvent ==
    \A a \in DOMAIN actions :
        /\ actions[a].dayId \in DOMAIN days
        /\ actions[a].eventId = days[actions[a].dayId].eventId

\* C28: no two EventDays of one event have the same dayNumber, also after
\* concurrent AddEventDay calls.
C28_DayNumberUnique ==
    \A d1, d2 \in DOMAIN days :
        (days[d1].eventId = days[d2].eventId /\ days[d1].dayNumber = days[d2].dayNumber)
        => d1 = d2

\* C29: the paymentStatus of every participant is unpaid, pending or paid,
\* after any registrations and any UpdatePaymentStatus calls, those with
\* another value included.
C29_PaymentStatusValues ==
    \A p \in DOMAIN participants : participants[p].paymentStatus \in PaymentStatuses

\* a registered participant whose status was updated, next to registered
\* participants of a paid and of a free event
C29_Witness ==
    /\ \E p \in DOMAIN participants \ SeedParticipants :
          participants[p].paymentStatus = "unpaid"
    /\ \E p \in DOMAIN participants \ SeedParticipants :
          participants[p].eventId = "e2" /\ participants[p].paymentStatus = "paid"

----------------------------------------------------------------------------
(* Credential decoding *)

\* payload q is a file path whose last element is the identifier id followed
\* by an extension: id begins the element, a dot follows it, no further dot
\* or separator up to the end of the element, and only separators after it
pathOf(q, id) ==
    \E i, j \in 1..Len(q) :
        /\ q[i] = id
        /\ i = 1 \/ q[i - 1] = "/"
        /\ i < j
        /\ q[i + 1] = "."
        /\ \A k \in (i + 2)..j : q[k] \notin {"/", "."}
        /\ \A k \in (j + 1)..Len(q) : q[k] = "/"

\* the identifiers payload q stands for, as a file path or as a bare identifier
identifiersOf(q) == { id \in UUIDText : pathOf(q, id) \/ q = <<id>> }

\* C31: the step that decodes the credential of a validated request answers
\* INVALID_QR_CODE when the payload is neither a file path whose base name
\* without extension is an identifier nor a bare identifier, and it does so
\* without a lookup (also while the participants table fails); for a valid
\* identifier it answers PARTICIPANT_NOT_FOUND when no participant has it
\* and loads the participant otherwise.
C31_CredentialDecoding ==
    [][\A c \in Calls :
          pc[c] = "participant" /\ pc'[c] # "participant" =>
             LET ids == identifiersOf(req[c].qr) IN
             /\ ids = {} => result'[c].kind = ErrInvalidQRCode
             /\ ids # {} => result'[c].kind # ErrInvalidQRCode
             /\ \A id \in ids :
                   ~Fails("participants") =>
                      IF id \in DOMAIN participants
                      THEN pc'[c] = "action" /\ participant'[c].id = id
                      ELSE result'[c].kind = ErrParticipantNotFound]_vars

\* a path payload with a directory, an identifier of no participant and an
\* extension has been answered PARTICIPANT_NOT_FOUND
C31_Witness ==
    \E c \in Calls :
        /\ Done(c)
        /\ req[c].qr = <<"/", "px", ".">>
        /\ result[c].kind = ErrParticipantNotFound

\* the request has an empty credential, action code or verifier id
hasEmptyField(r) == r.qr = <<>> \/ r.code = "" \/ r.verifierId = ""

\* C32: a verify request with an empty credential, an empty action code or
\* an empty verifier id is answered INVALID_INPUT in its first step, with no
\* participant, action or verifier loaded (also while the tables of the
\* lookups fail) and with the action_logs table unchanged.
C32_EmptyInputs ==
    [][\A c \in Calls :
          pc[c] = "idle" /\ pc'[c] # "idle" /\ hasEmptyField(req'[c]) =>
             /\ pc'[c] = "done"
             /\ result'[c] = NewVerificationError(ErrInvalidInput)
             /\ participant'[c] = NoParticipant
             /\ action'[c] = NoAction
             /\ verifier'[c] = NoUser
             /\ logs' = logs]_vars

\* a request with a decodable credential of a stored participant and an
\* empty action code has been answered INVALID_INPUT while a table fails
C32_Witness ==
    \E c \in Calls :
        /\ Done(c)
        /\ req[c].qr = <<"p1">>
        /\ req[c].code = ""
        /\ req[c].verifierId = "u1"
        /\ result[c].kind = ErrInvalidInput
        /\ down # {}

\* the positions of a verify request, in the order of the source
verifyPositions ==
    <<"idle", "participant", "action", "verifier">> \o checkOrder \o <<"create", "done">>

\* position y is the one that follows position x
follows(x, y) ==
    \E i \in 1..(Len(verifyPositions) - 1) :
        verifyPositions[i] = x /\ verifyPositions[i + 1] = y

\* C33: a step in which a verify request fails answers a typed error and
\* leaves the action_logs table as it is; the table changes in one step
\* only, the insert that answers success; a request reaches the insert only
\* by passing every earlier position in order with no error, performs it at
\* most once, and the rows it inserts for are resolved, active, of one
\* event and, requests running one at a time, without a stored ActionLog.
C33_FailureLeavesStore ==
    [][\A c \in Calls :
          /\ (pc[c] # "done" /\ pc'[c] = "done" /\ result'[c].kind # Success) =>
                /\ logs' = logs
                /\ result'[c].kind \in VerificationErrorType
                /\ result'[c].log = NoLog
          /\ (pc'[c] # pc[c] /\ logs' # logs) =>
                /\ pc[c] = "create" /\ pc'[c] = "done"
                /\ result'[c].kind = Success
                /\ logs' = logs \cup {result'[c].log}
                /\ Resolved(c) /\ action[c].isActive
                /\ action[c].eventId = participant[c].eventId
                /\ logsOfPair(participant[c].id, action[c].id) = {}
          /\ (pc'[c] # pc[c] /\ pc'[c] \notin {"done", "idle"}) =>
                /\ follows(pc[c], pc'[c])
                /\ result'[c] = NoResult
          /\ (pc[c] = "create" /\ pc'[c] # pc[c]) => pc'[c] = "done"
          /\ (pc[c] = "done" /\ pc'[c] # pc[c]) => pc'[c] = "idle"]_vars

\* a request for a pair that has its ActionLog has been refused, and the
\* ActionLog of the pair is still the only one
C33_Witness ==
    \E c \in Calls :
        /\ Done(c) /\ Resolved(c)
        /\ result[c].kind = ErrAlreadyVerified
        /\ Cardinality(logsOfPair(participant[c].id, action[c].id)) = 1

\* C34: in every reachable state each stored ActionLog joins a participant
\* and an action of the same event.
C34_LogJoinsOneEvent ==
    \A l \in logs :
        /\ l.participantId \in DOMAIN participants
        /\ l.actionId \in DOMAIN actions
        /\ participants[l.participantId].eventId = actions[l.actionId].eventId

\* both events have an ActionLog, and a request that joins a participant
\* with an action of the other event has been refused
C34_Witness ==
    /\ \E l \in logs : participants[l.participantId].eventId = "e1"
    /\ \E l \in logs : participants[l.participantId].eventId = "e2"
    /\ \E c \in Calls :
          /\ Done(c) /\ Resolved(c)
          /\ action[c].eventId # participant[c].eventId
          /\ result[c].kind = ErrEventMismatch

\* C35: for a paid event, the step that inserts an ActionLog is taken only
\* while the stored paymentStatus of the participant is 'paid', whatever
\* UpdatePaymentStatus calls interleave with the verify request.
C35_PaidAtInsert ==
    [][\A c \in Calls :
          (pc[c] = "create" /\ logs' # logs /\ OfPaidEvent(c)) =>
             participants[participant[c].id].paymentStatus = "paid"]_vars

\* C36: while the event of the participant cannot be loaded, the payment
\* gate passes whatever the payment status: a verify request at the payment
\* check moves on to the next check, and canVerify for a stored participant
\* and action answers what the duplicate and the event checks say, never
\* PAYMENT_REQUIRED.
C36_UnloadableEventIsFree ==
    [][/\ \A c \in Calls :
             (pc[c] = "payment" /\ pc'[c] # pc[c] /\ ~GetEventByID(participant[c].eventId)) =>
                /\ pc'[c] = "duplicate"
                /\ result'[c] = NoResult
       /\ (resp.op = "none" /\ resp'.op = "canVerify"
             /\ resp'.participantId \in DOMAIN participants
             /\ resp'.actionId \in DOMAIN actions
             /\ ~Fails("participants") /\ ~Fails("event_actions")
             /\ ~GetEventByID(participants[resp'.participantId].eventId)) =>
               LET p == resp'.participantId
                   a == resp'.actionId
               IN  resp'.err =
                      IF Fails("action_logs") THEN ErrDatabaseError
                      ELSE IF logsOfPair(p, a) # {} THEN ErrAlreadyVerified
                      ELSE IF actions[a].eventId # participants[p].eventId
                           THEN ErrEventMismatch
                      ELSE "none"]_vars

\* a verify request of a participant whose status is 'pending' in a paid
\* event has succeeded
C36_Witness ==
    \E c \in Calls :
        /\ Done(c) /\ result[c].kind = Success
        /\ OfPaidEvent(c)
        /\ participant[c].paymentStatus = "pending"

\* the participants registered to event e
participantsOf(e) == { p \in DOMAIN participants : participants[p].eventId = e }

\* C37: in every reachable state, also after concurrent RegisterParticipant
\* calls for one event, the number of participants of an event that has a
\* ticketQuota is at most that quota.
C37_QuotaRespected ==
    \A e \in DOMAIN events :
        events[e].hasQuota => Cardinality(participantsOf(e)) <= events[e].ticketQuota

\* C38: in every reachable state, also after concurrent RegisterParticipant
\* calls, no two participants of one event have the same email.
C38_EmailUniquePerEvent ==
    \A p, q \in DOMAIN participants :
        (participants[p].eventId = participants[q].eventId
            /\ participants[p].email = participants[q].email) => p = q

\* the participants the step registers
registeredNow == DOMAIN participants' \ DOMAIN participants

\* a step of RegisterParticipant (the other operations leave pending as it is)
RegistrationStep == pending' # pending

C40_NoSilentIneligible ==
    resp.op = "canVerify" =>
        \/ resp.ok /\ resp.err = "none"
        \/ ~resp.ok /\ resp.err \in VerificationErrorType

\* canVerify has answered false for a pair that has its ActionLog
C40_Witness ==
    /\ resp.op = "canVerify"
    /\ ~resp.ok
    /\ resp.err = ErrAlreadyVerified
    /\ logsOfPair(resp.participantId, resp.actionId) # {}

====
